---- MODULE Spec2Model ----
(***************************************************************************)
(* A model of json.cpp: the JSON_Value tagged union (typed accessors,      *)
(* indexing, assignment, to_string) and JSON_Parser::parse, the            *)
(* single-pass character scanner that fills a JSON_Value tree through an   *)
(* explicit stack of pointers.                                             *)
(*                                                                         *)
(* Text is a sequence of one-character strings.  A JSON_Value is a record  *)
(* with its discriminant and one field per alternative of JSON_Variant;    *)
(* only the field of the active alternative is meaningful.  A pointer      *)
(* JSON_Value* is the path from the root of the tree to the node.          *)
(* assert() is modelled as compiled in (it aborts the process).  A         *)
(* double is modelled by a natural number: every number of the model is    *)
(* a non-negative integer below 2^53, which a double holds exactly.        *)
(***************************************************************************)
EXTENDS Integers, Sequences, FiniteSets, TLC

(***************************************************************************)
(* Bounds of the model.                                                    *)
(***************************************************************************)
\* calls of the value API the caller makes before the document is serialised
MaxOps == 3
\* pieces of text the input stream delivers in text mode
MaxLexemes == 4

(***************************************************************************)
(* Characters.                                                             *)
(***************************************************************************)
DigitChars == <<"0", "1", "2", "3", "4", "5", "6", "7", "8", "9">>

isdigit(c) == \E i \in 1..10 : DigitChars[i] = c

DigitValue(c) == (CHOOSE i \in 1..10 : DigitChars[i] = c) - 1

\* the value of a character as an unsigned char (ASCII), for std::string's
\* ordering; the characters the model uses
CharCode(c) ==
    CASE c = "\"" -> 34
      [] c = "," -> 44
      [] c = ":" -> 58
      [] c = "[" -> 91
      [] c = "\\" -> 92
      [] c = "]" -> 93
      [] c = "{" -> 123
      [] c = "}" -> 125
      [] isdigit(c) -> 48 + DigitValue(c)
      [] c = "X" -> 88
      [] c = "Y" -> 89
      [] c = "a" -> 97
      [] c = "b" -> 98
      [] c = "d" -> 100
      [] c = "e" -> 101
      [] c = "f" -> 102
      [] c = "i" -> 105
      [] c = "j" -> 106
      [] c = "k" -> 107
      [] c = "l" -> 108
      [] c = "n" -> 110
      [] c = "o" -> 111
      [] c = "r" -> 114
      [] c = "s" -> 115
      [] c = "t" -> 116
      [] c = "u" -> 117
      [] c = "y" -> 121
      [] OTHER -> 255

\* std::string's operator< : lexicographic on the characters' codes
RECURSIVE StrLess(_, _)
StrLess(x, y) ==
    IF y = <<>> THEN FALSE
    ELSE IF x = <<>> THEN TRUE
    ELSE IF CharCode(Head(x)) # CharCode(Head(y))
         THEN CharCode(Head(x)) < CharCode(Head(y))
    ELSE StrLess(Tail(x), Tail(y))

(***************************************************************************)
(* JSON_Value: the variant and its constructors.                           *)
(***************************************************************************)
JSON_Type == {"BOOLEAN", "NUMBER", "STRING", "ARRAY", "OBJECT", "NIL"}

EmptyMap == [k \in {} |-> 0]

\* JSON_Value() : value(std::monostate{})
Nil == [type |-> "NIL", b |-> FALSE, n |-> 0, s |-> <<>>, a |-> <<>>, o |-> EmptyMap]

Bool(x) == [Nil EXCEPT !.type = "BOOLEAN", !.b = x]

Num(x) == [Nil EXCEPT !.type = "NUMBER", !.n = x]

Str(x) == [Nil EXCEPT !.type = "STRING", !.s = x]

Arr(x) == [Nil EXCEPT !.type = "ARRAY", !.a = x]

Obj(x) == [Nil EXCEPT !.type = "OBJECT", !.o = x]

is_null(v) == v.type = "NIL"

(***************************************************************************)
(* Typed accessors.  Each asserts the discriminant and returns the         *)
(* payload; the result is [ok, got]: ok is FALSE when the assertion fails  *)
(* (the call returns nothing), got is the payload returned, wrapped as a   *)
(* value of the accessor's type.                                           *)
(***************************************************************************)
Failed == [ok |-> FALSE, got |-> Nil]

boolean(v) == IF v.type = "BOOLEAN" THEN [ok |-> TRUE, got |-> Bool(v.b)] ELSE Failed

\* number() with the assertion compiled out and the payload read unchecked
number_unchecked(v) == [ok |-> TRUE, got |-> Num(v.n)]

number(v) == IF v.type = "NUMBER" THEN [ok |-> TRUE, got |-> Num(v.n)] ELSE Failed

string(v) == IF v.type = "STRING" THEN [ok |-> TRUE, got |-> Str(v.s)] ELSE Failed

\* const JSON_Array& array() const and JSON_Array& array()
array(v) == IF v.type = "ARRAY" THEN [ok |-> TRUE, got |-> Arr(v.a)] ELSE Failed

\* const JSON_Object& object() const and JSON_Object& object()
object(v) == IF v.type = "OBJECT" THEN [ok |-> TRUE, got |-> Obj(v.o)] ELSE Failed

Accessors == {"boolean", "number", "string", "array const", "object const",
              "array", "object"}

CallAccessor(acc, v) ==
    CASE acc = "boolean" -> boolean(v)
      [] acc = "number" -> number(v)
      [] acc = "string" -> string(v)
      [] acc \in {"array const", "array"} -> array(v)
      [] acc \in {"object const", "object"} -> object(v)

(***************************************************************************)
(* Pointers into a tree: a path of steps, an array index or an object key. *)
(***************************************************************************)
IdxStep(i) == [idx |-> i, key |-> <<>>]

KeyStep(k) == [idx |-> 0, key |-> k]

Child(v, st) == IF st.idx > 0 THEN v.a[st.idx] ELSE v.o[st.key]

RECURSIVE ValueAt(_, _)
ValueAt(v, p) == IF p = <<>> THEN v ELSE ValueAt(Child(v, Head(p)), Tail(p))

\* *ptr = w : the tree with the node at path p replaced by w
RECURSIVE Store(_, _, _)
Store(v, p, w) ==
    IF p = <<>> THEN w
    ELSE IF Head(p).idx > 0
         THEN [v EXCEPT !.a[Head(p).idx] = Store(v.a[Head(p).idx], Tail(p), w)]
         ELSE [v EXCEPT !.o[Head(p).key] = Store(v.o[Head(p).key], Tail(p), w)]

RECURSIVE Paths(_)
Paths(v) ==
    {<<>>}
    \cup (IF v.type = "ARRAY"
          THEN UNION {{<<IdxStep(i)>> \o q : q \in Paths(v.a[i])} : i \in 1..Len(v.a)}
          ELSE {})
    \cup (IF v.type = "OBJECT"
          THEN UNION {{<<KeyStep(k)>> \o q : q \in Paths(v.o[k])} : k \in DOMAIN v.o}
          ELSE {})

(***************************************************************************)
(* std::map<std::string, JSON_Value>                                       *)
(***************************************************************************)
\* map.insert({key, w}): an entry the map already holds is kept
MapInsert(m, k, w) == [j \in DOMAIN m \cup {k} |-> IF j \in DOMAIN m THEN m[j] ELSE w]

\* map[key] = w : insert or replace
MapPut(m, k, w) == [j \in DOMAIN m \cup {k} |-> IF j = k THEN w ELSE m[j]]

\* the keys in descending order
RECURSIVE MapKeysDescending(_)
MapKeysDescending(m) ==
    IF DOMAIN m = {} THEN <<>>
    ELSE LET k == CHOOSE x \in DOMAIN m : \A y \in DOMAIN m : x = y \/ StrLess(y, x)
         IN  <<k>> \o MapKeysDescending([j \in DOMAIN m \ {k} |-> m[j]])

\* the order a range-for visits the keys of a std::map: ascending
RECURSIVE MapKeys(_)
MapKeys(m) ==
    IF DOMAIN m = {} THEN <<>>
    ELSE LET k == CHOOSE x \in DOMAIN m : \A y \in DOMAIN m : x = y \/ StrLess(x, y)
         IN  <<k>> \o MapKeys([j \in DOMAIN m \ {k} |-> m[j]])

(***************************************************************************)
(* Formatting and parsing of numbers.                                      *)
(***************************************************************************)
RECURSIVE Digits(_)
Digits(x) ==
    IF x < 10 THEN <<DigitChars[x + 1]>>
    ELSE Digits(x \div 10) \o <<DigitChars[(x % 10) + 1]>>

RECURSIVE StripZeros(_)
StripZeros(ds) ==
    IF Len(ds) > 1 /\ ds[Len(ds)] = "0" THEN StripZeros(SubSeq(ds, 1, Len(ds) - 1))
    ELSE ds

\* std::format("{}", double) for a non-negative integral value: as
\* std::to_chars(first, last, value), the shorter of the fixed and the
\* scientific notation of the shortest digit string that reads back as the
\* value, the fixed one when they tie
FormatNumber(x) ==
    LET fixed == Digits(x)
        mant  == StripZeros(fixed)
        ex    == Digits(Len(fixed) - 1)
        sci   == <<Head(mant)>>
                 \o (IF Len(mant) > 1 THEN <<".">> \o Tail(mant) ELSE <<>>)
                 \o <<"e", "+">>
                 \o (IF Len(ex) < 2 THEN <<"0">> ELSE <<>>) \o ex
    IN  IF Len(fixed) <= Len(sci) THEN fixed ELSE sci

\* std::format("{}", bool)
FormatBool(x) == IF x THEN <<"t", "r", "u", "e">> ELSE <<"f", "a", "l", "s", "e">>

RECURSIVE DigitPrefix(_)
DigitPrefix(t) ==
    IF t # <<>> /\ isdigit(Head(t)) THEN <<Head(t)>> \o DigitPrefix(Tail(t)) ELSE <<>>

RECURSIVE DecimalValue(_)
DecimalValue(ds) ==
    IF ds = <<>> THEN 0
    ELSE 10 * DecimalValue(SubSeq(ds, 1, Len(ds) - 1)) + DigitValue(ds[Len(ds)])

\* std::stod(token) on the texts of the model (digits, letters, quotes and
\* backslashes; no sign, point, exponent, hex prefix, "inf", "nan" or white
\* space can start or continue a number in them): the value of the leading
\* run of digits, and std::invalid_argument when there is none
stod(t) ==
    LET ds == DigitPrefix(t)
    IN  IF ds = <<>> THEN [ok |-> FALSE, n |-> 0]
        ELSE [ok |-> TRUE, n |-> DecimalValue(ds)]

(***************************************************************************)
(* JSON_Value::to_string                                                   *)
(***************************************************************************)
\* operator<<(std::quoted(k)): the delimiter, the text with a backslash
\* before every delimiter and every backslash, the delimiter
RECURSIVE Escaped(_)
Escaped(s) ==
    IF s = <<>> THEN <<>>
    ELSE (IF Head(s) \in {"\"", "\\"} THEN <<"\\", Head(s)>> ELSE <<Head(s)>>)
         \o Escaped(Tail(s))

quoted(s) == <<"\"">> \o Escaped(s) \o <<"\"">>

\* std::format("\"{}\"", string())
FormatString(s) == <<"\"">> \o s \o <<"\"">>

\* buffer.pop_back() whatever the buffer holds
CloseBufferAlways(buffer, close) == SubSeq(buffer, 1, Len(buffer) - 1) \o <<close>>

\* buffer.pop_back() when buffer.size() > 1, then the closing bracket
CloseBuffer(buffer, close) ==
    (IF Len(buffer) > 1 THEN SubSeq(buffer, 1, Len(buffer) - 1) ELSE buffer)
    \o <<close>>

RECURSIVE to_string(_)
RECURSIVE ArrayBuffer(_, _)
RECURSIVE ObjectBuffer(_, _)

\* ss << v.to_string() << "," for the elements from index i on
ArrayBuffer(elems, i) ==
    IF i > Len(elems) THEN <<>>
    ELSE to_string(elems[i]) \o <<",">> \o ArrayBuffer(elems, i + 1)

\* ss << std::quoted(k) << ":" << v.to_string() << "," for the keys ks
ObjectBuffer(m, ks) ==
    IF ks = <<>> THEN <<>>
    ELSE quoted(Head(ks)) \o <<":">> \o to_string(m[Head(ks)]) \o <<",">>
         \o ObjectBuffer(m, Tail(ks))

to_string(v) ==
    CASE v.type = "BOOLEAN" -> FormatBool(v.b)
      [] v.type = "NUMBER" -> FormatNumber(v.n)
      [] v.type = "STRING" -> FormatString(v.s)
      [] v.type = "ARRAY" -> CloseBuffer(<<"[">> \o ArrayBuffer(v.a, 1), "]")
      [] v.type = "OBJECT" -> CloseBuffer(<<"{">> \o ObjectBuffer(v.o, MapKeys(v.o)), "}")
      [] OTHER -> <<"n", "u", "l", "l">>

(***************************************************************************)
(* State.                                                                  *)
(***************************************************************************)
VARIABLES
    pc,          \* "build": the caller uses the construction API;
                 \* "scan": parse is in its read loop; "done": parse returned;
                 \* "abort": an assert failed; "threw": an exception left the
                 \* call; "ub": the stack was read or popped while empty;
                 \* "crashed": the undefined behaviour ended the process
    doc,         \* the JSON_Value the caller builds and reads
    ops,         \* the number of calls of the value API made so far
    last,        \* the last call of the value API and what it returned
    src,         \* where the text parse reads comes from: "doc" (doc.to_string())
                 \* "text" (a stream delivering lexemes) or "scenario" (a whole
                 \* text); "none" before parse
    lexemes,     \* the lexemes the stream delivered so far
    input,       \* the text of the stream so far
    pos,         \* the number of characters parse has read
    root,        \* JSON_Value root
    stack,       \* std::stack<JSON_Value*>, the top last
    key,         \* std::string key
    token_type,  \* JSON_Type token_type
    token_size,  \* size_t token_size
    token_buff,  \* the text in std::stringstream token_buff
    undefined,   \* the run went through undefined behaviour
    assigned     \* history: the keyed assignments made to the objects of the
                 \* tree and not overwritten since, as [path, key, val]

vars == <<pc, doc, ops, last, src, lexemes, input, pos, root, stack, key,
          token_type, token_size, token_buff, undefined, assigned>>

parser == <<root, stack, key, token_type, token_size, token_buff>>

NoCall == [kind |-> "none", path |-> <<>>, key |-> <<>>, idx |-> 0, acc |-> "",
           ok |-> TRUE, got |-> Nil, before |-> Nil]

IsPrefix(p, q) == Len(p) <= Len(q) /\ SubSeq(q, 1, Len(p)) = p

\* the history after the assignment of w under key k of the object at path p:
\* whatever was below the old entry is gone with it
Assigned(h, p, k, w) ==
    {e \in h : ~(e.path = p /\ e.key = k) /\ ~IsPrefix(p \o <<KeyStep(k)>>, e.path)}
    \cup {[path |-> p, key |-> k, val |-> w]}

\* the values the caller constructs and assigns
Texts == {<<>>, <<"a">>, <<"t", "r", "u", "e">>, <<"a", "\"">>}

Keys == {<<"a">>, <<"b">>, <<"\"">>}

Literals ==
    {Nil, Bool(TRUE), Num(1), Arr(<<>>), Obj(EmptyMap)}
    \cup {Str(t) : t \in Texts}

Init ==
    /\ pc = "build"
    /\ doc = Nil
    /\ ops = 0
    /\ last = NoCall
    /\ src = "none"
    /\ lexemes = <<>>
    /\ input = <<>>
    /\ pos = 0
    /\ root = Nil
    /\ stack = <<>>
    /\ key = <<>>
    /\ token_type = "NIL"
    /\ token_size = 0
    /\ token_buff = <<>>
    /\ undefined = FALSE
    /\ assigned = {}

(***************************************************************************)
(* The value API, called on doc or on a node inside doc.                   *)
(***************************************************************************)
\* JSON_Value json = w : the converting constructors
Construct(w) ==
    /\ pc = "build" /\ ops = 0 /\ ops < MaxOps
    /\ doc' = w
    /\ ops' = 1
    /\ last' = [NoCall EXCEPT !.kind = "construct"]
    /\ UNCHANGED <<pc, src, lexemes, input, pos, parser, undefined, assigned>>

\* operator[] as a lookup that inserts nothing
IndexKeyLookup(v, k) ==
    IF v.type # "OBJECT" THEN [ok |-> FALSE, self |-> v, got |-> Nil]
    ELSE IF k \in DOMAIN v.o THEN [ok |-> TRUE, self |-> v, got |-> v.o[k]]
    ELSE [ok |-> TRUE, self |-> v, got |-> Nil]

\* JSON_Value& operator[](const std::string& key): the entry of the key,
\* inserted with a default JSON_Value when the map has none
IndexKey(v, k) ==
    IF v.type # "OBJECT" THEN [ok |-> FALSE, self |-> v, got |-> Nil]
    ELSE IF k \in DOMAIN v.o THEN [ok |-> TRUE, self |-> v, got |-> v.o[k]]
    ELSE [ok |-> TRUE, self |-> Obj(MapPut(v.o, k, Nil)), got |-> Nil]

\* const JSON_Value& operator[](const std::string& key) const: map::at
IndexKeyConst(v, k) ==
    IF v.type # "OBJECT" THEN [ok |-> FALSE, fail |-> "abort", got |-> Nil]
    ELSE IF k \in DOMAIN v.o THEN [ok |-> TRUE, fail |-> "", got |-> v.o[k]]
    ELSE [ok |-> FALSE, fail |-> "threw", got |-> Nil]

\* const JSON_Value& operator[](int index) const: vector::at, the index
\* converted to size_t (a negative one becomes a huge one)
IndexIntConst(v, i) ==
    IF v.type # "ARRAY" THEN [ok |-> FALSE, fail |-> "abort", got |-> Nil]
    ELSE IF i >= 0 /\ i < Len(v.a) THEN [ok |-> TRUE, fail |-> "", got |-> v.a[i + 1]]
    ELSE [ok |-> FALSE, fail |-> "threw", got |-> Nil]

\* a typed accessor called on the node at path p
Access(p, acc) ==
    /\ pc = "build" /\ ops > 0 /\ ops < MaxOps
    /\ LET r == CallAccessor(acc, ValueAt(doc, p))
       IN  /\ last' = [NoCall EXCEPT !.kind = "access", !.path = p, !.acc = acc,
                                     !.ok = r.ok, !.got = r.got, !.before = doc]
           /\ pc' = IF r.ok THEN "build" ELSE "abort"
    /\ ops' = ops + 1
    /\ UNCHANGED <<doc, src, lexemes, input, pos, parser, undefined, assigned>>

\* node[k] on a mutable node, the reference not assigned through
Subscript(p, k) ==
    /\ pc = "build" /\ ops > 0 /\ ops < MaxOps
    /\ LET v == ValueAt(doc, p)
           r == IndexKey(v, k)
       IN  /\ doc' = Store(doc, p, r.self)
           /\ last' = [NoCall EXCEPT !.kind = "subscript", !.path = p, !.key = k,
                                     !.ok = r.ok, !.got = r.got, !.before = doc]
           /\ pc' = IF r.ok THEN "build" ELSE "abort"
           /\ ops' = ops + 1
           /\ assigned' = IF r.self # v THEN Assigned(assigned, p, k, Nil) ELSE assigned
    /\ UNCHANGED <<src, lexemes, input, pos, parser, undefined>>

\* node[k] = w : operator[] and then operator=
AssignKey(p, k, w) ==
    /\ pc = "build" /\ ops > 0 /\ ops < MaxOps
    /\ LET v == ValueAt(doc, p)
           r == IndexKey(v, k)
       IN  /\ doc' = IF r.ok THEN Store(doc, p, Obj(MapPut(r.self.o, k, w))) ELSE doc
           /\ last' = [NoCall EXCEPT !.kind = "assign", !.path = p, !.key = k,
                                     !.ok = r.ok, !.got = w, !.before = doc]
           /\ pc' = IF r.ok THEN "build" ELSE "abort"
           /\ ops' = ops + 1
           /\ assigned' = IF r.ok THEN Assigned(assigned, p, k, w) ELSE assigned
    /\ UNCHANGED <<src, lexemes, input, pos, parser, undefined>>

\* node.array().push_back(w)
PushBack(p, w) ==
    /\ pc = "build" /\ ops > 0 /\ ops < MaxOps
    /\ LET v == ValueAt(doc, p)
           r == array(v)
       IN  /\ doc' = IF r.ok THEN Store(doc, p, Arr(Append(v.a, w))) ELSE doc
           /\ last' = [NoCall EXCEPT !.kind = "push_back", !.path = p,
                                     !.ok = r.ok, !.got = w, !.before = doc]
           /\ pc' = IF r.ok THEN "build" ELSE "abort"
           /\ ops' = ops + 1
    /\ UNCHANGED <<src, lexemes, input, pos, parser, undefined, assigned>>

\* node[k] on a const node
ReadKey(p, k) ==
    /\ pc = "build" /\ ops > 0 /\ ops < MaxOps
    /\ LET r == IndexKeyConst(ValueAt(doc, p), k)
       IN  /\ last' = [NoCall EXCEPT !.kind = "read key", !.path = p, !.key = k,
                                     !.ok = r.ok, !.got = r.got, !.before = doc]
           /\ pc' = IF r.ok THEN "build" ELSE r.fail
    /\ ops' = ops + 1
    /\ UNCHANGED <<doc, src, lexemes, input, pos, parser, undefined, assigned>>

\* node[i] on a const node
ReadIndex(p, i) ==
    /\ pc = "build" /\ ops > 0 /\ ops < MaxOps
    /\ LET r == IndexIntConst(ValueAt(doc, p), i)
       IN  /\ last' = [NoCall EXCEPT !.kind = "read index", !.path = p, !.idx = i,
                                     !.ok = r.ok, !.got = r.got, !.before = doc]
           /\ pc' = IF r.ok THEN "build" ELSE r.fail
    /\ ops' = ops + 1
    /\ UNCHANGED <<doc, src, lexemes, input, pos, parser, undefined, assigned>>

(***************************************************************************)
(* JSON_Parser::parse                                                      *)
(***************************************************************************)
\* the locals of parse as its declarations leave them
StartParse ==
    /\ root' = Nil
    /\ stack' = <<<<>>>>
    /\ key' = <<>>
    /\ token_type' = "NIL"
    /\ token_size' = 0
    /\ token_buff' = <<>>
    /\ pos' = 0
    /\ assigned' = {}
    /\ last' = NoCall

\* JSON_Value::parse(doc.to_string())
ParseDocument ==
    /\ pc = "build" /\ ops > 0
    /\ pc' = "scan"
    /\ src' = "doc"
    /\ input' = to_string(doc)
    /\ StartParse
    /\ UNCHANGED <<doc, ops, lexemes, undefined>>

\* JSON_Value::parse(stream) on a stream whose text is not known beforehand
ParseStream ==
    /\ pc = "build" /\ ops = 0
    /\ pc' = "scan"
    /\ src' = "text"
    /\ input' = <<>>
    /\ StartParse
    /\ UNCHANGED <<doc, ops, lexemes, undefined>>

\* the pieces of text the stream delivers
Lexemes ==
    {<<"[">>, <<"]">>, <<"{">>, <<"}">>, <<",">>, <<":">>,
     <<"1">>, <<"a">>, <<"\"", "a", "\"">>,
     <<"t", "r", "u", "e">>, <<"\"", "t", "r", "u", "e", "\"">>,
     <<"n", "u", "l", "l">>}

(***************************************************************************)
(* Whole texts given to parse.                                             *)
(***************************************************************************)
\* const char *input of main: [134234,"sdfsdf",true,false,null,[1,true,{"arr":[2,3],"id":"XY23","obj":{"key":1}}]]
MainInput ==
    <<"[", "1", "3", "4", "2", "3", "4", ",", "\"", "s", "d", "f", "s", "d",
      "f", "\"", ",", "t", "r", "u", "e", ",", "f", "a", "l", "s", "e", ",",
      "n", "u", "l", "l", ",", "[", "1", ",", "t", "r", "u", "e", ",", "{",
      "\"", "a", "r", "r", "\"", ":", "[", "2", ",", "3", "]", ",", "\"",
      "i", "d", "\"", ":", "\"", "X", "Y", "2", "3", "\"", ",", "\"", "o",
      "b", "j", "\"", ":", "{", "\"", "k", "e", "y", "\"", ":", "1", "}",
      "}", "]", "]">>

\* the flat array: [134234,"sdfsdf",true,false,null]
FlatArrayText ==
    <<"[", "1", "3", "4", "2", "3", "4", ",", "\"", "s", "d", "f", "s", "d",
      "f", "\"", ",", "t", "r", "u", "e", ",", "f", "a", "l", "s", "e", ",",
      "n", "u", "l", "l", "]">>

\* an array that is never closed: [1,2
UnterminatedText ==
    <<"[", "1", ",", "2">>

\* an object whose keys descend: {"b":1,"a":2}
UnsortedKeysText ==
    <<"{", "\"", "b", "\"", ":", "1", ",", "\"", "a", "\"", ":", "2", "}">>

\* an object that repeats a key: {"a":1,"b":2,"a":true}
DuplicateKeyText ==
    <<"{", "\"", "a", "\"", ":", "1", ",", "\"", "b", "\"", ":", "2", ",",
      "\"", "a", "\"", ":", "t", "r", "u", "e", "}">>

\* a nested array followed by a scalar: [[1],2]
NestedThenScalarText ==
    <<"[", "[", "1", "]", ",", "2", "]">>

\* an unquoted token of digits and a letter: [1a2]
MixedTokenText ==
    <<"[", "1", "a", "2", "]">>

\* an object with a value that has no key: {"a":1,2}
KeylessValueText ==
    <<"{", "\"", "a", "\"", ":", "1", ",", "2", "}">>

\* a string that holds a bracket: ["[1"]
BracketInStringText ==
    <<"[", "\"", "[", "1", "\"", "]">>

Scenarios ==
    {MainInput, FlatArrayText, UnterminatedText, UnsortedKeysText, DuplicateKeyText,
     NestedThenScalarText, MixedTokenText, KeylessValueText, BracketInStringText}

\* JSON_Value::parse(t) on a text known beforehand
ParseText(t) ==
    /\ pc = "build" /\ ops = 0
    /\ pc' = "scan"
    /\ src' = "scenario"
    /\ input' = t
    /\ StartParse
    /\ UNCHANGED <<doc, ops, lexemes, undefined>>

\* the stream has more text: the next lexeme arrives
Deliver(lx) ==
    /\ pc = "scan" /\ src = "text"
    /\ pos = Len(input) /\ Len(lexemes) < MaxLexemes
    /\ lexemes' = Append(lexemes, lx)
    /\ input' = input \o lx
    /\ UNCHANGED <<pc, doc, ops, last, src, pos, parser, undefined, assigned>>

Reading(cs) == pc = "scan" /\ pos < Len(input) /\ input[pos + 1] \in cs

Top == stack[Len(stack)]

\* stack.push(p) run twice
PushTwice(p) == Append(Append(stack, p), p)

Push(p) == Append(stack, p)

Pop == SubSeq(stack, 1, Len(stack) - 1)

Structural == {"{", "[", ":", "}", "]", ",", "\""}

\* case '{' and case '[': fresh is JSON_Object{} or JSON_Array{}
Open(fresh) ==
    /\ pos' = pos + 1
    /\ UNCHANGED <<doc, ops, last, src, lexemes, input, undefined,
                   token_type, token_size, token_buff, key>>
    /\ IF stack = <<>>
       THEN \* stack.top() of an empty stack
            pc' = "ub" /\ UNCHANGED <<root, stack, assigned>>
       ELSE LET top == ValueAt(root, Top)
            IN  CASE top.type = "ARRAY" ->
                       /\ root' = Store(root, Top, Arr(Append(top.a, fresh)))
                       /\ stack' = Push(Top \o <<IdxStep(Len(top.a) + 1)>>)
                       /\ UNCHANGED <<pc, assigned>>
                  [] top.type = "OBJECT" ->
                       IF key = <<>>
                       THEN \* assert(!key.empty())
                            pc' = "abort" /\ UNCHANGED <<root, stack, assigned>>
                       ELSE /\ root' = Store(root, Top, Obj(MapPut(top.o, key, fresh)))
                            /\ stack' = Push(Top \o <<KeyStep(key)>>)
                            /\ assigned' = Assigned(assigned, Top, key, fresh)
                            /\ UNCHANGED pc
                  [] OTHER ->
                       /\ root' = Store(root, Top, fresh)
                       /\ UNCHANGED <<pc, stack, assigned>>

OpenBrace == Reading({"{"}) /\ Open(Obj(EmptyMap))

OpenBracket == Reading({"["}) /\ Open(Arr(<<>>))

\* case ':' with the assertions compiled out (NDEBUG)
ColonUnchecked ==
    /\ Reading({":"})
    /\ pos' = pos + 1
    /\ UNCHANGED <<pc, doc, ops, last, src, lexemes, input, undefined, root, stack, assigned>>
    /\ key' = token_buff
    /\ token_buff' = <<>>
    /\ token_size' = 0
    /\ token_type' = "NIL"

\* case ':'
Colon ==
    /\ Reading({":"})
    /\ pos' = pos + 1
    /\ UNCHANGED <<doc, ops, last, src, lexemes, input, undefined, root, stack, assigned>>
    /\ IF token_type = "STRING" /\ token_size > 0
       THEN /\ key' = token_buff
            /\ token_buff' = <<>>
            /\ token_size' = 0
            /\ token_type' = "NIL"
            /\ UNCHANGED pc
       ELSE \* assert(token_type == JSON_Type::STRING); assert(token_size > 0)
            pc' = "abort" /\ UNCHANGED <<key, token_buff, token_size, token_type>>

\* the kind the buffered token is committed as
Classify(token, type) ==
    IF token = <<"t", "r", "u", "e">> \/ token = <<"f", "a", "l", "s", "e">>
    THEN "BOOLEAN" ELSE type

\* the JSON_Value a token of the kind is converted to; ok is FALSE when
\* std::stod throws
Convert(token, type) ==
    CASE type = "BOOLEAN" -> [ok |-> TRUE, value |-> Bool(token = <<"t", "r", "u", "e">>)]
      [] type = "NUMBER" -> [ok |-> stod(token).ok, value |-> Num(stod(token).n)]
      [] type = "STRING" -> [ok |-> TRUE, value |-> Str(token)]
      [] OTHER -> [ok |-> TRUE, value |-> Nil]

\* case '}', ']', ',' with token_size > 0: the token is stored in the top
Commit ==
    LET c == Convert(token_buff, Classify(token_buff, token_type))
    IN  IF ~c.ok
        THEN \* std::invalid_argument leaves parse
             pc' = "threw" /\ UNCHANGED <<parser, assigned>>
        ELSE IF stack = <<>>
        THEN \* stack.top() of an empty stack
             pc' = "ub" /\ UNCHANGED <<parser, assigned>>
        ELSE LET top == ValueAt(root, Top)
             IN  CASE top.type = "ARRAY" ->
                        /\ root' = Store(root, Top, Arr(Append(top.a, c.value)))
                        /\ token_buff' = <<>> /\ token_size' = 0 /\ token_type' = "NIL"
                        /\ UNCHANGED <<pc, stack, key, assigned>>
                   [] top.type = "OBJECT" ->
                        IF key = <<>>
                        THEN \* assert(!key.empty())
                             pc' = "abort" /\ UNCHANGED <<parser, assigned>>
                        ELSE /\ root' = Store(root, Top, Obj(MapPut(top.o, key, c.value)))
                             /\ assigned' = Assigned(assigned, Top, key, c.value)
                             /\ token_buff' = <<>> /\ token_size' = 0 /\ token_type' = "NIL"
                             /\ UNCHANGED <<pc, stack, key>>
                   [] OTHER ->
                        /\ token_buff' = <<>> /\ token_size' = 0 /\ token_type' = "NIL"
                        /\ UNCHANGED <<pc, root, stack, key, assigned>>

\* case '}', ']', ',' with token_size = 0: stack.pop()
Close ==
    IF stack = <<>>
    THEN \* stack.pop() of an empty stack
         pc' = "ub" /\ UNCHANGED <<parser, assigned>>
    ELSE /\ stack' = Pop
         /\ UNCHANGED <<pc, root, key, token_type, token_size, token_buff, assigned>>

Separator ==
    /\ Reading({"}", "]", ","})
    /\ pos' = pos + 1
    /\ UNCHANGED <<doc, ops, last, src, lexemes, input, undefined>>
    /\ IF token_size > 0 THEN Commit ELSE Close

\* case '"'
Quote ==
    /\ Reading({"\""})
    /\ pos' = pos + 1
    /\ token_type' = "STRING"
    /\ UNCHANGED <<pc, doc, ops, last, src, lexemes, input, undefined,
                   root, stack, key, token_size, token_buff, assigned>>

\* the token kind after the character c joined the token
Retype(c, type) ==
    LET t1 == IF isdigit(c) /\ type # "STRING" THEN "NUMBER" ELSE type
    IN  IF ~isdigit(c) /\ t1 = "NUMBER" THEN "NIL" ELSE t1

\* any other character: below the switch
Accumulate ==
    /\ pc = "scan" /\ pos < Len(input) /\ input[pos + 1] \notin Structural
    /\ pos' = pos + 1
    /\ token_buff' = Append(token_buff, input[pos + 1])
    /\ token_size' = token_size + 1
    /\ token_type' = Retype(input[pos + 1], token_type)
    /\ UNCHANGED <<pc, doc, ops, last, src, lexemes, input, undefined,
                   root, stack, key, assigned>>

\* isstream.read fails: return root
EndOfStream ==
    /\ pc = "scan" /\ pos = Len(input)
    /\ pc' = "done"
    /\ UNCHANGED <<doc, ops, last, src, lexemes, input, pos, parser, undefined, assigned>>

\* what reading or popping the empty stack did: the process dies, or parse
\* goes on to return, with the tree as it was or with something else
UndefinedOutcome ==
    /\ pc = "ub"
    /\ undefined' = TRUE
    /\ \/ pc' = "crashed" /\ UNCHANGED root
       \/ pc' = "done" /\ UNCHANGED root
       \/ pc' = "done" /\ root' = Nil
    /\ UNCHANGED <<doc, ops, last, src, lexemes, input, pos, stack, key,
                   token_type, token_size, token_buff, assigned>>

Next ==
    \/ \E w \in Literals : Construct(w)
    \/ \E p \in Paths(doc), acc \in Accessors : Access(p, acc)
    \/ \E p \in Paths(doc), k \in Keys : Subscript(p, k)
    \/ \E p \in Paths(doc), k \in Keys, w \in Literals : AssignKey(p, k, w)
    \/ \E p \in Paths(doc), w \in Literals : PushBack(p, w)
    \/ \E p \in Paths(doc), k \in Keys : ReadKey(p, k)
    \/ \E p \in Paths(doc), i \in -1..1 : ReadIndex(p, i)
    \/ ParseDocument
    \/ ParseStream
    \/ \E t \in Scenarios : ParseText(t)
    \/ \E lx \in Lexemes : Deliver(lx)
    \/ OpenBrace
    \/ OpenBracket
    \/ Colon
    \/ Separator
    \/ Quote
    \/ Accumulate
    \/ EndOfStream
    \/ UndefinedOutcome

Spec == Init /\ [][Next]_vars

(***************************************************************************)
(* Vocabulary of the properties.                                           *)
(***************************************************************************)
\* the call of parse is over, however it ended
Ended == pc \in {"done", "abort", "threw", "ub", "crashed"} /\ src # "none"

\* parse returned a tree, by defined behaviour
Returned == pc = "done" /\ ~undefined

\* the tree the program is working on
Tree == IF src = "none" THEN doc ELSE root

Nodes(v) == {ValueAt(v, p) : p \in Paths(v)}

\* every text of the tree: the strings and the keys of the objects
TextsOf(v) ==
    {x.s : x \in {y \in Nodes(v) : y.type = "STRING"}}
    \cup UNION {DOMAIN x.o : x \in {y \in Nodes(v) : y.type = "OBJECT"}}

Count(text, cs) == Cardinality({i \in 1..Len(text) : text[i] \in cs})

(***************************************************************************)
(* C1  Round trip.  For every value tree v built with the construction     *)
(* API that contains no string with an embedded quote, parse(to_string(v)) *)
(* returns a tree t with to_string(t) = to_string(v).                      *)
(***************************************************************************)
NoEmbeddedQuote(v) == \A t \in TextsOf(v) : Count(t, {"\""}) = 0

\* C1: to_string(parse(to_string(v))) = to_string(v) for every built v without a quote
C1_RoundTrip ==
    (src = "doc" /\ NoEmbeddedQuote(doc) /\ Ended)
        => (Returned /\ to_string(root) = to_string(doc))

(***************************************************************************)
(* C2  Structure preservation.  For every well-formed compact JSON text t  *)
(* (root an array or object; containers nested and possibly empty;         *)
(* numbers digit runs; strings non-empty, free of quotes and structural    *)
(* characters and not the texts true/false; keys distinct and ascending),  *)
(* parse(t) returns a tree with to_string equal to t.  The texts are the   *)
(* serialisations of the documents of that shape.                          *)
(***************************************************************************)
PlainText(t) ==
    /\ t # <<>>
    /\ Count(t, Structural) = 0
    /\ t # <<"t", "r", "u", "e">>
    /\ t # <<"f", "a", "l", "s", "e">>

WellFormedDocument(v) ==
    /\ v.type \in {"ARRAY", "OBJECT"}
    /\ \A t \in TextsOf(v) : PlainText(t)
    /\ \A x \in Nodes(v) : x.type = "NUMBER" => FormatNumber(x.n) = Digits(x.n)

\* C2: parse(t).to_string() = t for every well-formed compact text t
C2_StructurePreserved ==
    (src = "doc" /\ WellFormedDocument(doc) /\ Ended)
        => (Returned /\ to_string(root) = input)

(***************************************************************************)
(* C3  Unterminated input is rejected.  When some '[' or '{' of the input  *)
(* is never closed, parse does not return a tree.                          *)
(***************************************************************************)
Unterminated(text) == Count(text, {"[", "{"}) > Count(text, {"]", "}"})

\* C3: parse returns no tree for an input with an unclosed bracket
C3_UnterminatedRejected == Returned => ~Unterminated(input)

(***************************************************************************)
(* C4  Type safety.  A typed accessor whose required discriminant differs  *)
(* from the value's fails, returns no payload and leaves the value as it   *)
(* was; the accessor that matches returns exactly the stored payload.      *)
(***************************************************************************)
Required(acc) ==
    CASE acc = "boolean" -> "BOOLEAN"
      [] acc = "number" -> "NUMBER"
      [] acc = "string" -> "STRING"
      [] acc \in {"array const", "array"} -> "ARRAY"
      [] acc \in {"object const", "object"} -> "OBJECT"

\* C4: a mismatched accessor fails and changes nothing, the matching one returns the payload
C4_TypeSafety ==
    last.kind = "access" =>
        LET v == ValueAt(last.before, last.path)
        IN  /\ doc = last.before
            /\ IF Required(last.acc) = v.type
               THEN pc = "build" /\ last.ok /\ last.got = v
               ELSE pc = "abort" /\ ~last.ok /\ last.got = Nil

\* number() has been called on a String inside the document and has failed
C4_MismatchedAccess ==
    /\ last.kind = "access" /\ pc = "abort"
    /\ last.acc = "number"
    /\ ValueAt(doc, last.path).type = "STRING"
    /\ last.path # <<>>

(***************************************************************************)
(* C5  Key uniqueness.  After any sequence of keyed assignments, by the    *)
(* caller through operator[] or by the parser committing values, every     *)
(* object holds exactly one entry per distinct key assigned to it, and     *)
(* the entry holds what was assigned to the key last (a container          *)
(* assigned under a key is filled afterwards: then its kind is compared).  *)
(***************************************************************************)
\* C5: every object holds one entry per key assigned, with the value assigned last
C5_KeyUniqueness ==
    ~undefined =>
        \A p \in Paths(Tree) :
            LET v == ValueAt(Tree, p)
                W == {e \in assigned : e.path = p}
            IN  v.type = "OBJECT" =>
                    /\ DOMAIN v.o = {e.key : e \in W}
                    /\ Cardinality(DOMAIN v.o) = Cardinality(W)
                    /\ \A e \in W :
                           IF e.val.type \in {"ARRAY", "OBJECT"}
                           THEN v.o[e.key].type = e.val.type
                           ELSE v.o[e.key] = e.val

\* the parser has committed the repeated key of {"a":1,"b":2,"a":true}
C5_KeyAssignedTwice ==
    /\ pc = "done" /\ input = DuplicateKeyText
    /\ root = Obj([k \in {<<"a">>, <<"b">>} |-> IF k = <<"a">> THEN Bool(TRUE) ELSE Num(2)])

(***************************************************************************)
(* C6  Sorted object output.  to_string of an object emits its entries in  *)
(* ascending key order, whatever order the keys were inserted in or        *)
(* appeared in the parsed text.                                            *)
(***************************************************************************)
Ascending(ks) == \A i \in 1..Len(ks) : \A j \in 1..Len(ks) : i < j => StrLess(ks[i], ks[j])

\* the position of the quote that opens the key ending before position i
RECURSIVE KeyStart(_, _)
KeyStart(text, i) == IF text[i] = "\"" THEN i ELSE KeyStart(text, i - 1)

\* the keys of the outermost object of a serialised text, in the order of
\* the text: the quoted text before every colon at bracket depth one
KeysOfText(text) ==
    LET colons == {i \in 1..Len(text) :
                      /\ text[i] = ":"
                      /\ Count(SubSeq(text, 1, i), {"[", "{"})
                           - Count(SubSeq(text, 1, i), {"]", "}"}) = 1}
        RECURSIVE Walk(_)
        Walk(i) ==
            IF i > Len(text) THEN <<>>
            ELSE (IF i \in colons
                  THEN <<SubSeq(text, KeyStart(text, i - 2) + 1, i - 2)>>
                  ELSE <<>>) \o Walk(i + 1)
    IN  Walk(1)

AlphaNumeric(v) == \A t \in TextsOf(v) : t # <<>> /\ Count(t, Structural \cup {"\\"}) = 0

\* C6: the keys of every serialised object ascend
C6_SortedOutput ==
    ~undefined =>
        \A v \in Nodes(Tree) :
            v.type = "OBJECT" =>
                /\ {MapKeys(v.o)[i] : i \in 1..Len(MapKeys(v.o))} = DOMAIN v.o
                /\ Len(MapKeys(v.o)) = Cardinality(DOMAIN v.o)
                /\ Ascending(MapKeys(v.o))
                /\ AlphaNumeric(v) =>
                       /\ Ascending(KeysOfText(to_string(v)))
                       /\ Len(KeysOfText(to_string(v))) = Cardinality(DOMAIN v.o)

\* the caller has inserted a key below one the object already held
C6_InsertedOutOfOrder ==
    /\ last.kind = "assign" /\ last.ok /\ pc = "build"
    /\ \E k \in DOMAIN ValueAt(last.before, last.path).o : StrLess(last.key, k)
    /\ AlphaNumeric(ValueAt(doc, last.path))
    /\ Len(KeysOfText(to_string(ValueAt(doc, last.path)))) = 2

(***************************************************************************)
(* C7  Quote escaping on output.  to_string of a String value wraps the    *)
(* text in double quotes and escapes every double quote inside it: the     *)
(* only quotes of the output without a backslash before them are the two   *)
(* that wrap it.                                                           *)
(***************************************************************************)
UnescapedQuotes(text) ==
    Cardinality({i \in 1..Len(text) :
                    text[i] = "\"" /\ (i = 1 \/ text[i - 1] # "\\")})

\* C7: the serialisation of a String holds exactly two unescaped quotes
C7_QuotesEscaped ==
    \A v \in Nodes(doc) :
        (v.type = "STRING" /\ Count(v.s, {"\\"}) = 0)
            => UnescapedQuotes(to_string(v)) = 2

(***************************************************************************)
(* C8  Flat array.  For every input [t1,...,tn], n >= 1, each ti a digit   *)
(* run, a non-empty quoted text, true, false or null, parse returns an     *)
(* array of exactly n elements, element i the Number, String, Boolean or   *)
(* Null that ti denotes.                                                   *)
(***************************************************************************)
\* what a token lexeme denotes
Denoted(lx) ==
    CASE lx = <<"t", "r", "u", "e">> -> Bool(TRUE)
      [] lx = <<"f", "a", "l", "s", "e">> -> Bool(FALSE)
      [] lx = <<"n", "u", "l", "l">> -> Nil
      [] Head(lx) = "\"" -> Str(SubSeq(lx, 2, Len(lx) - 1))
      [] OTHER -> Num(DecimalValue(lx))

IsToken(lx) ==
    \/ lx \in {<<"t", "r", "u", "e">>, <<"f", "a", "l", "s", "e">>, <<"n", "u", "l", "l">>}
    \/ \A i \in 1..Len(lx) : isdigit(lx[i])
    \/ Len(lx) > 2 /\ Head(lx) = "\"" /\ lx[Len(lx)] = "\""
          /\ Count(SubSeq(lx, 2, Len(lx) - 1), Structural) = 0

\* the lexemes are [ t1 , t2 , ... tn ]
IsFlatArray(ls) ==
    /\ Len(ls) >= 3 /\ Len(ls) % 2 = 1
    /\ ls[1] = <<"[">> /\ ls[Len(ls)] = <<"]">>
    /\ \A i \in 2..(Len(ls) - 1) :
           IF i % 2 = 0 THEN IsToken(ls[i]) ELSE ls[i] = <<",">>

\* C8: parse of [t1,...,tn] returns the Array of what t1..tn denote
C8_FlatArray ==
    (src = "text" /\ IsFlatArray(lexemes) /\ Ended)
        => /\ Returned
           /\ root = Arr([i \in 1..((Len(lexemes) - 1) \div 2) |-> Denoted(lexemes[2 * i])])

(***************************************************************************)
(* C9  Empty containers.  parse of [] is an Array with no element, parse   *)
(* of {} an Object with no entry, and to_string of them gives [] and {}    *)
(* back.                                                                   *)
(***************************************************************************)
\* C9: [] and {} parse to the empty Array and Object and serialise back
C9_EmptyContainers ==
    /\ (Ended /\ input = <<"[", "]">>)
           => (Returned /\ root.type = "ARRAY" /\ Len(root.a) = 0
                 /\ to_string(root) = <<"[", "]">>)
    /\ (Ended /\ input = <<"{", "}">>)
           => (Returned /\ root.type = "OBJECT" /\ DOMAIN root.o = {}
                 /\ to_string(root) = <<"{", "}">>)

\* parse has returned from the text {}
C9_EmptyObjectParsed == pc = "done" /\ src = "text" /\ input = <<"{", "}">>

(***************************************************************************)
(* C10  Indexing by key.  Mutable operator[] with an absent key inserts    *)
(* the key with a Null value and returns it: the object grows by one and   *)
(* its other entries are unchanged.  Read-only operator[] with an absent   *)
(* key, or read-only integer indexing out of range, fails with an error    *)
(* and leaves the container unchanged.                                     *)
(***************************************************************************)
\* C10: mutable operator[] inserts an absent key with Null; the const forms fail and change nothing
C10_Indexing ==
    LET old == ValueAt(last.before, last.path)
        new == ValueAt(doc, last.path)
    IN  /\ (last.kind = "subscript" /\ old.type = "OBJECT" /\ last.key \notin DOMAIN old.o)
               => /\ pc = "build" /\ last.ok /\ last.got = Nil
                  /\ new.type = "OBJECT"
                  /\ DOMAIN new.o = DOMAIN old.o \cup {last.key}
                  /\ Cardinality(DOMAIN new.o) = Cardinality(DOMAIN old.o) + 1
                  /\ new.o[last.key] = Nil
                  /\ \A j \in DOMAIN old.o : new.o[j] = old.o[j]
                  /\ doc = Store(last.before, last.path, new)
        /\ (last.kind = "read key" /\ old.type = "OBJECT" /\ last.key \notin DOMAIN old.o)
               => (pc = "threw" /\ ~last.ok /\ last.got = Nil /\ doc = last.before)
        /\ (last.kind = "read index" /\ old.type = "ARRAY"
              /\ (last.idx < 0 \/ last.idx >= Len(old.a)))
               => (pc = "threw" /\ ~last.ok /\ last.got = Nil /\ doc = last.before)

\* operator[] has inserted a key into an object that held another one
C10_AbsentKeyInserted ==
    /\ last.kind = "subscript" /\ pc = "build"
    /\ ValueAt(last.before, last.path).type = "OBJECT"
    /\ DOMAIN ValueAt(last.before, last.path).o # {}
    /\ last.key \notin DOMAIN ValueAt(last.before, last.path).o

(***************************************************************************)
(* Vocabulary of the parser's steps.                                       *)
(***************************************************************************)
\* the backslashes that end at position i of the text
RECURSIVE Backslashes(_, _)
Backslashes(text, i) ==
    IF i = 0 \/ text[i] # "\\" THEN 0 ELSE 1 + Backslashes(text, i - 1)

\* the quote at position i delimits a string: it is not escaped
Delimiter(text, i) == text[i] = "\"" /\ Backslashes(text, i - 1) % 2 = 0

\* position i of the text lies inside a quoted string
InString(text, i) == Cardinality({j \in 1..(i - 1) : Delimiter(text, j)}) % 2 = 1

\* the brackets of the first n characters that are opened and not closed,
\* those inside quoted strings not counted
Unclosed(text, n) ==
    Cardinality({i \in 1..n : text[i] \in {"[", "{"} /\ ~InString(text, i)})
    - Cardinality({i \in 1..n : text[i] \in {"]", "}"} /\ ~InString(text, i)})

(***************************************************************************)
(* C11  Comma without token is a no-op.  When the parser reads ',' while   *)
(* the token buffer is empty, the comma following a closed nested          *)
(* container, the container stack, the pending key and the tree are        *)
(* unchanged.                                                              *)
(***************************************************************************)
AfterNestedClose ==
    /\ pos > 0 /\ input[pos] \in {"]", "}"}
    /\ Unclosed(input, pos) >= 1

\* C11: ',' read with an empty token buffer leaves stack, key and tree as they were
C11_CommaNoOp ==
    [][(Reading({","}) /\ token_size = 0 /\ AfterNestedClose)
          => UNCHANGED <<stack, key, root>>]_vars

(***************************************************************************)
(* C12  No empty-stack access.  For every well-formed compact document     *)
(* whose root is an array or object, no step of the scan reads the top of, *)
(* or pops, an empty container stack.                                      *)
(***************************************************************************)
\* stack.top() or stack.pop() was called on the empty stack
EmptyStackAccess == pc = "ub" \/ undefined

\* C12: the scan of a well-formed document never reads or pops the empty stack
C12_NoEmptyStackAccess ==
    (src = "doc" /\ WellFormedDocument(doc)) => ~EmptyStackAccess

(***************************************************************************)
(* C13  End-of-stream depth.  For every well-formed document whose root is *)
(* an array or object, when the input is exhausted the stack holds exactly *)
(* the root frame.                                                         *)
(***************************************************************************)
\* C13: at the end of a well-formed document the stack depth is 1
C13_EndDepth ==
    (src = "doc" /\ WellFormedDocument(doc) /\ Returned) => stack = <<<<>>>>

(***************************************************************************)
(* The step that commits a token: ',', '}' or ']' read with a non-empty    *)
(* token buffer while the top of the stack can take a value.               *)
(***************************************************************************)
\* the top of the stack is an Array, or an Object with a pending key
TopTakesValue ==
    /\ stack # <<>>
    /\ \/ ValueAt(root, Top).type = "ARRAY"
       \/ ValueAt(root, Top).type = "OBJECT" /\ key # <<>>

CommitStep == Reading({"}", "]", ","}) /\ token_size > 0 /\ TopTakesValue

\* the value last stored in the container at p of the tree r: the last
\* element of the Array, the entry of the Object under k
StoredIn(r, p, k) ==
    LET top == ValueAt(r, p)
    IN  IF top.type = "ARRAY" THEN top.a[Len(top.a)] ELSE top.o[k]

\* the commit went through and stored w
Commits(w) ==
    /\ pc' = "scan"
    /\ ValueAt(root', Top).type = ValueAt(root, Top).type
    /\ ValueAt(root, Top).type = "ARRAY"
           => Len(ValueAt(root', Top).a) = Len(ValueAt(root, Top).a) + 1
    /\ StoredIn(root', Top, key) = w

AllDigits(t) == \A i \in 1..Len(t) : isdigit(t[i])

(***************************************************************************)
(* C14  Number classification.  An unquoted token is committed as a Number *)
(* only if it is a run of digits; a non-digit appended to a token in       *)
(* Number mode demotes it to Unset; an unquoted token that contains a      *)
(* non-digit and is not exactly true or false is committed as Null.        *)
(* A token is unquoted when no '"' was read since the token state was      *)
(* reset, that is when its kind is not String.                             *)
(***************************************************************************)
\* C14: an unquoted token is a Number only if all digits, and Null if it has a non-digit and is not true or false
C14_NumberClassification ==
    [][/\ (CommitStep /\ token_type # "STRING")
            => /\ pc' = "scan"
               /\ StoredIn(root', Top, key).type = "NUMBER" => AllDigits(token_buff)
               /\ (~AllDigits(token_buff) /\ Classify(token_buff, token_type) # "BOOLEAN")
                      => Commits(Nil)
       /\ (pc = "scan" /\ pos < Len(input) /\ input[pos + 1] \notin Structural
             /\ token_type = "NUMBER" /\ ~isdigit(input[pos + 1]))
            => token_type' = "NIL"]_vars

(***************************************************************************)
(* C15  Quoted text stays String.  Every non-empty token delimited by      *)
(* quotes is committed as a String holding exactly the quoted text,        *)
(* the texts "true" and "false" and quoted digit runs included.            *)
(***************************************************************************)
\* C15: a non-empty quoted token is committed as the String of its text
C15_QuotedStaysString ==
    [][(CommitStep /\ token_type = "STRING") => Commits(Str(token_buff))]_vars

(***************************************************************************)
(* C16  Colon step.  ':' is accepted only when the accumulated token has   *)
(* kind String and is non-empty; otherwise the parser fails by assertion   *)
(* and stores nothing.  On acceptance the pending key becomes the token    *)
(* text, the token buffer, size and kind are reset, and the stack and the  *)
(* tree are unchanged.                                                     *)
(***************************************************************************)
\* C16: ':' takes a non-empty String token as the key and resets the token, or fails by assertion
C16_ColonStep ==
    [][Reading({":"})
          => IF token_type = "STRING" /\ token_size > 0
             THEN /\ pc' = "scan"
                  /\ key' = token_buff
                  /\ token_buff' = <<>> /\ token_size' = 0 /\ token_type' = "NIL"
                  /\ UNCHANGED <<stack, root>>
             ELSE /\ pc' = "abort"
                  /\ UNCHANGED <<root, stack, key, assigned>>]_vars

\* a ':' was accepted: the scan goes on past it with a key and an empty token
C16_ColonAccepted ==
    /\ pc = "scan" /\ pos > 0 /\ input[pos] = ":"
    /\ key # <<>> /\ token_size = 0 /\ token_buff = <<>> /\ token_type = "NIL"

(***************************************************************************)
(* C17  Value without pending key is rejected.  While the top of the stack *)
(* is an Object, a value (scalar token or nested container) is stored only *)
(* if a key has been committed by ':' since the previous value was stored  *)
(* in that object.  Between a ':' and the value that follows it the input  *)
(* has no other bracket, comma or colon, so the key is fresh exactly when  *)
(* the last such character read before the value is ':'.                   *)
(***************************************************************************)
Punctuation == Structural \ {"\""}

\* the last bracket, comma or colon among the characters read so far
LastPunctuation ==
    LET read == {i \in 1..pos : input[i] \in Punctuation}
    IN  IF read = {} THEN "" ELSE input[CHOOSE i \in read : \A j \in read : j <= i]

FreshKey == LastPunctuation = ":"

\* the step offers a value to the Object on top of the stack
ValueForObject ==
    /\ \/ Reading({"}", "]", ","}) /\ token_size > 0
       \/ Reading({"{", "["})
    /\ stack # <<>>
    /\ ValueAt(root, Top).type = "OBJECT"

\* C17: a value that arrives in an Object without a fresh key is not stored
C17_KeylessValueRejected ==
    [][(ValueForObject /\ ~FreshKey) => UNCHANGED <<root, assigned>>]_vars

(***************************************************************************)
(* C18  Opening bracket step.  On '{' (resp. '[') with a non-empty stack:  *)
(* if the top is an Array, a new empty Object (resp. Array) is appended as *)
(* its last element and exactly one frame referring to it is pushed; if    *)
(* the top is an Object, the new container is stored under the pending key *)
(* and exactly one frame referring to it is pushed (with no pending key    *)
(* the assertion stops the program); if the top is the still-Null root,    *)
(* the root becomes the new empty container and the depth is unchanged.    *)
(***************************************************************************)
\* the stack after the step is the stack before it with the one frame p on top
PushedOne(p) == stack' = Append(stack, p)

\* the tree after the step differs from the tree before it at most below p
ChangedOnlyAt(p) == root' = Store(root, p, ValueAt(root', p))

\* C18: an opening bracket appends to an Array top or stores under the key of an Object top, pushing one frame, or replaces the Null root
C18_OpenStep ==
    [][(Reading({"{", "["}) /\ stack # <<>>)
          => LET fresh == IF input[pos + 1] = "{" THEN Obj(EmptyMap) ELSE Arr(<<>>)
                 top == ValueAt(root, Top)
             IN  CASE top.type = "ARRAY" ->
                        /\ ValueAt(root', Top) = Arr(Append(top.a, fresh))
                        /\ ChangedOnlyAt(Top)
                        /\ PushedOne(Top \o <<IdxStep(Len(top.a) + 1)>>)
                        /\ ValueAt(root', stack'[Len(stack')]) = fresh
                   [] top.type = "OBJECT" /\ key # <<>> ->
                        /\ ValueAt(root', Top).type = "OBJECT"
                        /\ DOMAIN ValueAt(root', Top).o = DOMAIN top.o \cup {key}
                        /\ \A k \in DOMAIN top.o \ {key} : ValueAt(root', Top).o[k] = top.o[k]
                        /\ ChangedOnlyAt(Top)
                        /\ PushedOne(Top \o <<KeyStep(key)>>)
                        /\ ValueAt(root', stack'[Len(stack')]) = fresh
                   [] top.type = "OBJECT" /\ key = <<>> ->
                        pc' = "abort" /\ UNCHANGED <<root, stack>>
                   [] top.type = "NIL" /\ Top = <<>> ->
                        root' = fresh /\ UNCHANGED stack
                   [] OTHER -> FALSE]_vars

\* an opening bracket was read under a key: its container is stored in the
\* enclosing Object and is the top of the stack
C18_OpenedUnderKey ==
    /\ pc = "scan" /\ pos > 0 /\ input[pos] \in {"{", "["}
    /\ Len(stack) >= 2
    /\ Top[Len(Top)].key # <<>>
    /\ ValueAt(root, Top) \in {Obj(EmptyMap), Arr(<<>>)}

(***************************************************************************)
(* C19  Stack lag.  For every well-formed compact document whose root is   *)
(* an array or object, with no empty container and no empty string, at     *)
(* every step of the scan the stack depth minus the number of unclosed     *)
(* brackets is 0 or 1, and the scan ends with stack depth 1.  The          *)
(* documents are those the serialiser writes for a built tree whose string *)
(* values hold no quote (to_string does not escape them), and the text     *)
(* ["[1"], a string that holds a bracket.                                  *)
(***************************************************************************)
NothingEmpty(v) ==
    \A x \in Nodes(v) :
        /\ x.type = "ARRAY" => x.a # <<>>
        /\ x.type = "OBJECT" => DOMAIN x.o # {}
        /\ x.type = "STRING" => x.s # <<>>

NoQuoteInValues(v) ==
    \A x \in Nodes(v) : x.type = "STRING" => Count(x.s, {"\""}) = 0

\* the document is serialised from a tree without empty container or string
SerialisedNonEmpty ==
    /\ src = "doc"
    /\ doc.type \in {"ARRAY", "OBJECT"}
    /\ NothingEmpty(doc)
    /\ NoQuoteInValues(doc)

StackLag == Len(stack) - Unclosed(input, pos)

LagBounded ==
    /\ ~EmptyStackAccess
    /\ StackLag \in {0, 1}
    /\ pc = "done" => Len(stack) = 1

\* C19: on a well-formed document without empty container or string the stack depth exceeds the unclosed brackets by 0 or 1 and ends at 1
C19_StackLag ==
    (SerialisedNonEmpty \/ (src = "scenario" /\ input = BracketInStringText))
        => LagBounded

(***************************************************************************)
(* C20  Bracket-free input yields Null.  For every input without '{', '[', *)
(* '}', ']' in which every ',' is read with a non-empty token buffer,      *)
(* parse returns a Null root with the stack holding only the root frame:   *)
(* a token pending at the end is never committed, and a token committed by *)
(* ',' is discarded with the token state reset.  Inputs with ':' are left  *)
(* out here: what ':' does is the subject of C16.                          *)
(***************************************************************************)
\* the ',' at position i of the text follows a token: a character other than
\* '"' comes between the previous ',' and it
TokenBefore(text, i) ==
    \E j \in 1..(i - 1) :
        /\ text[j] \notin {",", "\""}
        /\ \A m \in j..(i - 1) : text[m] # ","

BracketFree(text) ==
    /\ Count(text, {"{", "[", "}", "]", ":"}) = 0
    /\ \A i \in 1..Len(text) : text[i] = "," => TokenBefore(text, i)

\* C20: the scan of a bracket-free input keeps the Null root and the root frame, discards the token at ',' and returns
C20_BracketFreeNull ==
    (src # "none" /\ BracketFree(input))
        => /\ pc \in {"scan", "done"}
           /\ ~undefined
           /\ root = Nil
           /\ stack = <<<<>>>>
           /\ (pos > 0 /\ input[pos] = ",")
                  => (token_buff = <<>> /\ token_size = 0 /\ token_type = "NIL")

====
